---- MODULE Spec2Model ----
(***************************************************************************)
(* Distributed lock of libs/common (decorators/with-lock.decorator.ts),    *)
(* the lock keys it derives from its key patterns, and the snowflake id    *)
(* generator of libs/common (SnowflakeGenerator, promise-chain variant).   *)
(*                                                                         *)
(* Time is in milliseconds.  One global clock `now` stands for Date.now()  *)
(* of every process and for the clock of the Redis server; it only moves   *)
(* forward.  A store round-trip is one atomic step taken at the instant    *)
(* the command is issued, and timers (setTimeout) fire exactly on time:    *)
(* the clock advances from one pending deadline to the next and only when  *)
(* no invocation has a step to take at the current instant.                *)
(***************************************************************************)
EXTENDS Integers, Sequences, FiniteSets, TLC

\* ---------------------------------------------------------------- bounds
NCallers == 2          \* invocations of the general specification
NKeys == 2             \* distinct lock keys
MaxTime == 2600        \* the clock is not advanced past this instant
MaxN == 8              \* largest N of the N-concurrent-callers scenario
NCalls == 2            \* calls of wrapped methods whose keys are compared
NReqs == 3             \* calls of next() / nextBatch()
MaxCount == 2          \* largest count passed to nextBatch()
Before == 1            \* clock readings reach this many ms before the epoch
After == 2             \* clock readings reach this many ms after the epoch

AllCallers == 1..(IF MaxN > NCallers THEN MaxN ELSE NCallers)
Callers == 1..NCallers
Keys == 1..NKeys

\* ------------------------------------------------------- program constants
Undefined == -1        \* an option left out of WithLockOptions
DefaultTtl == 30000
DefaultWaitTimeout == 5000
DefaultRetryInterval == 100
WorkerIdBits == 5
DatacenterIdBits == 5
SequenceBits == 12

\* inputs of the general specification
TtlOpts == {300}
WaitOpts == {0, 250}
RetryOpts == {Undefined}
Durations == {200, 400}

\* the scenario of N concurrent callers: ttl 1000, waitTimeout 2000,
\* retryInterval left at its default, 200 ms critical section
ScenarioOptions == [key |-> 1, ttl |-> 1000, waitTimeout |-> 2000, retryInterval |-> Undefined]
ScenarioDurations == {200}

VARIABLES
  now,      \* Date.now() / the store's clock
  store,    \* Redis: key -> [val, exp]; Absent when the key does not exist
  inv,      \* the invocations of the wrapped method, one record each
  n,        \* N of the scenario (0 in the general specification)
  calls,    \* calls of the demo service's wrapped methods and their lock keys
  env,      \* process.env of each process that loads the id generator
  gens,     \* the SnowflakeGenerator singleton of each process
  reqs      \* the calls of next() / nextBatch(), one record each

vars == <<now, store, inv, n, calls, env, gens, reqs>>

\* what the lock's own steps leave alone
offLock == <<calls, env, gens, reqs>>

\* what the id generator's steps leave alone
offGen == <<now, store, inv, n, calls>>

Nil == <<>>
Absent == [val |-> Nil, exp |-> 0]
NoOptions == [key |-> 0, ttl |-> Undefined, waitTimeout |-> Undefined, retryInterval |-> Undefined]

Min(S) == CHOOSE x \in S : \A y \in S : x <= y

\* ------------------------------------------------------------ the wrapper
\* const ttl = options.ttl || 30000
ResolveTtl(o) == IF o = Undefined \/ o = 0 THEN DefaultTtl ELSE o

\* const waitTimeout = options.waitTimeout ?? 5000
ResolveWaitTimeoutOr(o) == IF o = Undefined \/ o = 0 THEN DefaultWaitTimeout ELSE o
ResolveWaitTimeout(o) == IF o = Undefined THEN DefaultWaitTimeout ELSE o

\* const retryInterval = options.retryInterval || 100
ResolveRetryInterval(o) == IF o = Undefined \/ o = 0 THEN DefaultRetryInterval ELSE o

\* process.pid of the process that runs invocation c (two processes)
Pid(c) == c % 2

\* `${process.pid}-${Date.now()}-${Math.random()}`
Token(pid, t, rnd) == <<pid, t, rnd>>

\* the token of invocation c when Math.random() gives each invocation a
\* value of its own
LockValue(c, t) == Token(Pid(c), t, c)

\* ------------------------------------------------------------- the store
\* SET key value PX ttl NX: the reply
SetNxReplyAnyKey(st, k) == \A j \in Keys : st[j] = Absent
SetNxReplyNoNx(st, k) == TRUE
SetNxReply(st, k) == st[k] = Absent

\* SET key value PX ttl NX: the effect
SetNxPxRefresh(st, k, v, px, t) ==
  IF st[k] = Absent THEN [st EXCEPT ![k] = [val |-> v, exp |-> t + px]]
                    ELSE [st EXCEPT ![k].exp = t + px]
SetNxPx(st, k, v, px, t) ==
  IF SetNxReply(st, k) THEN [st EXCEPT ![k] = [val |-> v, exp |-> t + px]] ELSE st

\* the Lua script: if get(KEYS[1]) == ARGV[1] then return del(KEYS[1]) else return 0
LuaReplyNoCompare(st, k, v) == IF st[k] # Absent THEN 1 ELSE 0
LuaReply(st, k, v) == IF st[k].val = v THEN 1 ELSE 0

LuaEffectNoCompare(st, k, v) == [st EXCEPT ![k] = Absent]
LuaEffectNoDelete(st, k, v) == st
LuaEffect(st, k, v) == IF st[k].val = v THEN [st EXCEPT ![k] = Absent] ELSE st

\* expiry of the keys whose PX time has passed at instant t
ExpireNever(st, t) == st
Expire(st, t) == [k \in Keys |-> IF st[k] # Absent /\ st[k].exp <= t THEN Absent ELSE st[k]]

\* ------------------------------------------------------------------ Init
\* One invocation.  pc is its position; options the WithLockOptions of the
\* decorated method; lockKey .. acquired the locals of the wrapper;
\* startTime the local of acquireLock; wakeAt / bodyEnd the instants at
\* which the pending sleep resolves / the running body settles; released the
\* local of the finally block; outcome how the call settled for its caller;
\* attempts / releases the number of redis.set / redis.eval commands issued;
\* acqAt the instant of the successful redis.set; storeErr the store command
\* that raised an error.
Fresh ==
  [pc |-> "idle", options |-> NoOptions, lockKey |-> 0, ttl |-> 0, waitTimeout |-> 0,
   retryInterval |-> 0, lockValue |-> Nil, acquired |-> FALSE, startTime |-> 0,
   wakeAt |-> 0, bodyEnd |-> 0, released |-> FALSE, outcome |-> "pending",
   attempts |-> 0, releases |-> 0, acqAt |-> 0, storeErr |-> "none"]

\* the call has settled: its frame (the locals) is gone
Settle(r, how) ==
  [r EXCEPT !.pc = "done", !.outcome = how, !.attempts = 0, !.ttl = 0, !.waitTimeout = 0, !.retryInterval = 0,
            !.lockValue = Nil, !.startTime = 0, !.wakeAt = 0, !.bodyEnd = 0, !.acqAt = 0]

Init ==
  /\ now = 0
  /\ store = [k \in Keys |-> Absent]
  /\ inv = [c \in AllCallers |-> Fresh]
  /\ n = 0
  /\ calls = <<>>
  /\ env = <<>> /\ gens = <<>> /\ reqs = <<>>

\* --------------------------------------------------------------- actions
\* descriptor.value up to the call of acquireLock, whose first redis.set is
\* due at once (wakeAt = now)
Invoke(c, o, hasRedis) ==
  /\ inv[c].pc = "idle"
  /\ \A d \in 1..(c - 1) : inv[d].pc # "idle"   \* invocations are numbered in call order
  /\ inv' = [inv EXCEPT ![c] =
       IF ~hasRedis
         THEN Settle(@, "REDIS_NOT_INJECTED")
         ELSE [@ EXCEPT !.pc = "acquire", !.options = o, !.lockKey = o.key,
                        !.ttl = ResolveTtl(o.ttl),
                        !.waitTimeout = ResolveWaitTimeout(o.waitTimeout),
                        !.retryInterval = ResolveRetryInterval(o.retryInterval),
                        !.lockValue = LockValue(c, now),
                        !.startTime = now, !.wakeAt = now]]
  /\ UNCHANGED <<now, store, n, offLock>>

\* acquireLock after a reply that is not OK: give up, or sleep(retryInterval)
AfterMissRunsBody(r, t) ==
  IF t - r.startTime >= r.waitTimeout
    THEN [r EXCEPT !.pc = "body", !.bodyEnd = t]
    ELSE [r EXCEPT !.wakeAt = t + r.retryInterval]
AfterMissRetryAlways(r, t) == [r EXCEPT !.wakeAt = t + r.retryInterval]
AfterMiss(r, t) ==
  IF t - r.startTime >= r.waitTimeout
    THEN Settle(r, "LOCK_ACQUIRE_FAILED")
    ELSE [r EXCEPT !.wakeAt = t + r.retryInterval]

\* acquireLock when redis.set throws
AfterSetErrorSwallow(r, t) == AfterMiss([r EXCEPT !.storeErr = "set"], t)
AfterSetError(r, t) == Settle([r EXCEPT !.storeErr = "set"], "LOCK_ACQUIRE_ERROR")

\* the wrapper after acquireLock returned true: the method body starts
AfterOk(r, t, dur) ==
  [r EXCEPT !.pc = "body", !.acquired = TRUE, !.acqAt = t, !.bodyEnd = t + dur]

\* one turn of the loop of acquireLock: the redis.set is issued, the store
\* answers (or fails), and the wrapper runs up to its next await: the method
\* body, the sleep, or the throw
TrySet(c, err, dur) ==
  /\ inv[c].pc = "acquire"
  /\ inv[c].wakeAt <= now
  /\ IF err
       THEN /\ inv' = [inv EXCEPT ![c] = AfterSetError([@ EXCEPT !.attempts = @ + 1], now)]
            /\ UNCHANGED store
       ELSE /\ store' = SetNxPx(store, inv[c].lockKey, inv[c].lockValue, inv[c].ttl, now)
            /\ inv' = [inv EXCEPT ![c] =
                 IF SetNxReply(store, inv[c].lockKey)
                   THEN AfterOk([@ EXCEPT !.attempts = @ + 1], now, dur)
                   ELSE AfterMiss([@ EXCEPT !.attempts = @ + 1], now)]
  /\ UNCHANGED <<now, n, offLock>>

\* the wrapper from the moment originalMethod settles (returns or throws):
\* the finally block issues redis.eval, the store answers (or fails),
\* releaseLock returns, and the call settles with what the body produced
AfterReleaseOnReturn(r, ok, body) ==
  IF body = "threw" THEN Settle(r, body)
                    ELSE Settle([r EXCEPT !.released = ok, !.releases = @ + 1], body)
AfterReleaseSurfacesError(r, ok, body) ==
  Settle([r EXCEPT !.released = ok, !.releases = @ + 1],
         IF r.storeErr = "eval" THEN "LOCK_RELEASE_ERROR" ELSE IF ok THEN body ELSE "LOCK_RELEASE_FAILED")
AfterRelease(r, ok, body) == Settle([r EXCEPT !.released = ok, !.releases = @ + 1], body)

Release(c, throws, err) ==
  /\ inv[c].pc = "body"
  /\ inv[c].bodyEnd <= now
  /\ IF err
       THEN /\ inv' = [inv EXCEPT ![c] =
                 AfterRelease([@ EXCEPT !.storeErr = "eval"], FALSE,
                              IF throws THEN "threw" ELSE "returned")]
            /\ UNCHANGED store
       ELSE /\ store' = LuaEffect(store, inv[c].lockKey, inv[c].lockValue)
            /\ inv' = [inv EXCEPT ![c] =
                 AfterRelease(@, LuaReply(store, inv[c].lockKey, inv[c].lockValue) = 1,
                              IF throws THEN "threw" ELSE "returned")]
  /\ UNCHANGED <<now, n, offLock>>

\* the process of a holder dies inside the method body: nothing more runs
Crash(c) ==
  /\ inv[c].pc = "body"
  /\ inv' = [inv EXCEPT ![c] = [@ EXCEPT !.pc = "crashed", !.options = NoOptions, !.waitTimeout = 0, !.retryInterval = 0,
                 !.startTime = 0, !.wakeAt = 0, !.bodyEnd = 0]]
  /\ UNCHANGED <<now, store, n, offLock>>

\* an invocation with a step to take at the current instant
Urgent(c) ==
  \/ inv[c].pc = "acquire" /\ inv[c].wakeAt <= now
  \/ inv[c].pc = "body" /\ inv[c].bodyEnd <= now

Deadlines ==
  {inv[c].wakeAt : c \in {d \in AllCallers : inv[d].pc = "acquire"}}
    \cup {inv[c].bodyEnd : c \in {d \in AllCallers : inv[d].pc = "body"}}
    \cup {store[k].exp : k \in {j \in Keys : store[j] # Absent}}

\* time passes up to the next timer or expiry; the store drops expired keys
Advance ==
  /\ \A c \in AllCallers : ~Urgent(c)
  /\ Deadlines # {}
  /\ Min(Deadlines) <= MaxTime
  /\ now' = Min(Deadlines)
  /\ store' = Expire(store, Min(Deadlines))
  /\ UNCHANGED <<inv, n, offLock>>

Next ==
  \/ \E c \in Callers, k \in Keys, t \in TtlOpts, w \in WaitOpts, r \in RetryOpts, h \in BOOLEAN :
       Invoke(c, [key |-> k, ttl |-> t, waitTimeout |-> w, retryInterval |-> r], h)
  \/ \E c \in Callers, err \in BOOLEAN, dur \in Durations : TrySet(c, err, dur)
  \/ \E c \in Callers, throws \in BOOLEAN, err \in BOOLEAN : Release(c, throws, err)
  \/ \E c \in Callers : Crash(c)
  \/ Advance

Spec == Init /\ [][Next]_vars

\* ------------------------------------------------ the tokens as drawn
\* process.pid identifies a process on its own host only, and Math.random()
\* returns some double of [0, 1): both are inputs of the invocation.
Pids == {0, 1}
Randoms == {1, 2}

\* descriptor.value up to the call of acquireLock, with the pid of the
\* process and the value Math.random() returned
InvokeDrawing(c, o, pid, rnd) ==
  /\ inv[c].pc = "idle"
  /\ \A d \in 1..(c - 1) : inv[d].pc # "idle"
  /\ inv' = [inv EXCEPT ![c] =
       [@ EXCEPT !.pc = "acquire", !.options = o, !.lockKey = o.key,
                 !.ttl = ResolveTtl(o.ttl),
                 !.waitTimeout = ResolveWaitTimeout(o.waitTimeout),
                 !.retryInterval = ResolveRetryInterval(o.retryInterval),
                 !.lockValue = Token(pid, now, rnd),
                 !.startTime = now, !.wakeAt = now]]
  /\ UNCHANGED <<now, store, n, offLock>>

NextT ==
  \/ \E c \in Callers, k \in Keys, t \in TtlOpts, w \in WaitOpts, r \in RetryOpts, pid \in Pids, rnd \in Randoms :
       InvokeDrawing(c, [key |-> k, ttl |-> t, waitTimeout |-> w, retryInterval |-> r], pid, rnd)
  \/ \E c \in Callers, dur \in Durations : TrySet(c, FALSE, dur)
  \/ \E c \in Callers, throws \in BOOLEAN : Release(c, throws, FALSE)
  \/ Advance

SpecT == Init /\ [][NextT]_vars

\* ------------------------------------- N concurrent callers on one key
\* All n callers invoke the wrapped method at the same instant with the
\* options of the scenario; no store error, no crash, a 200 ms body.
InitN ==
  /\ now = 0
  /\ store = [k \in Keys |-> Absent]
  /\ inv = [c \in AllCallers |-> Fresh]
  /\ n \in 1..MaxN
  /\ calls = <<>>
  /\ env = <<>> /\ gens = <<>> /\ reqs = <<>>

\* The callers are interchangeable (same options, same start), so of the
\* callers whose redis.set is due at the current instant the one with the
\* lowest number goes first: every other order is this one with the callers
\* renamed.
NextN ==
  \/ \E c \in 1..n : Invoke(c, ScenarioOptions, TRUE)
  \/ \E c \in 1..n, dur \in ScenarioDurations :
       /\ \A d \in 1..(c - 1) : ~(inv[d].pc = "acquire" /\ inv[d].wakeAt <= now)
       /\ TrySet(c, FALSE, dur)
  \/ \E c \in 1..n : Release(c, FALSE, FALSE)
  \/ (\A c \in 1..n : inv[c].pc # "idle") /\ Advance

SpecN == InitN /\ [][NextN]_vars

\* ------------------------------------------------------ the lock key
\* A key pattern is a sequence of parts: literal text, or a placeholder #{text}.
Lit(t) == [ph |-> FALSE, text |-> t]
Ph(t) == [ph |-> TRUE, text |-> t]

\* An argument value: a string, or an object with its own properties in
\* Object.keys order; str is String(value).
Str(t) == [type |-> "string", str |-> t, props |-> <<>>]
Num(i) == [type |-> "number", str |-> ToString(i), props |-> <<>>]
Obj(ps) == [type |-> "object", str |-> "[object Object]", props |-> ps]
Prop(k, v) == [key |-> k, val |-> v]

\* the pattern as the string written in the decorator
RECURSIVE Render(_)
Render(parts) ==
  IF parts = <<>> THEN ""
  ELSE (IF Head(parts).ph THEN "#{" \o Head(parts).text \o "}" ELSE Head(parts).text)
         \o Render(Tail(parts))

\* lockKey.replace(new RegExp(`#\\{${name}\\}`, "g"), value)
Replace(parts, name, value) ==
  [i \in DOMAIN parts |-> IF parts[i].ph /\ parts[i].text = name THEN Lit(value) ELSE parts[i]]

\* args.forEach((arg, index) => replace #{index} by String(arg)), from index i on
RECURSIVE ReplaceArgs(_, _, _)
ReplaceArgs(parts, args, i) ==
  IF i > Len(args) THEN parts
  ELSE ReplaceArgs(Replace(parts, ToString(i - 1), args[i].str), args, i + 1)

\* Object.keys(firstArg).forEach((key) => replace #{key} by String(firstArg[key]))
RECURSIVE ReplaceProps(_, _)
ReplaceProps(parts, ps) ==
  IF ps = <<>> THEN parts
  ELSE ReplaceProps(Replace(parts, Head(ps).key, Head(ps).val), Tail(ps))

GenerateLockKey(pattern, args) ==
  Render(IF Len(args) > 0 /\ args[1].type = "object"
           THEN ReplaceProps(ReplaceArgs(pattern, args, 1), args[1].props)
           ELSE ReplaceArgs(pattern, args, 1))

\* the wrapped methods: those of the demo service and those of the README
UserIds == {"u1", "u2"}
ProductIds == {"p1", "p2"}
OrderIds == {"o1"}
Quantities == {1}

Methods ==
  [createOrder |-> [key |-> <<Lit("lock:order:create:"), Ph("userId")>>,
                    args |-> {<<Str(u), Str(q), Num(k)>> : u \in UserIds, q \in ProductIds, k \in Quantities}],
   reduceInventory |-> [key |-> <<Lit("lock:inventory:"), Ph("productId")>>,
                        args |-> {<<Str(q), Num(k)>> : q \in ProductIds, k \in Quantities}],
   updateUser |-> [key |-> <<Lit("lock:user:"), Ph("0")>>,
                   args |-> {<<Str(u), Obj(<<Prop("name", "x")>>)>> : u \in UserIds}],
   cancelOrder |-> [key |-> <<Lit("lock:order:"), Ph("orderId"), Lit(":"), Ph("userId")>>,
                    args |-> {<<Obj(<<Prop("orderId", o), Prop("userId", u)>>)>> : o \in OrderIds, u \in UserIds}]]

InitK ==
  /\ now = 0
  /\ store = [k \in Keys |-> Absent]
  /\ inv = [c \in AllCallers |-> Fresh]
  /\ n = 0
  /\ calls = <<>>
  /\ env = <<>> /\ gens = <<>> /\ reqs = <<>>

\* descriptor.value up to const lockKey = generateLockKey(options.key, args)
Call(m, a) ==
  /\ Len(calls) < NCalls
  /\ calls' = Append(calls, [method |-> m, args |-> a, lockKey |-> GenerateLockKey(Methods[m].key, a)])
  /\ UNCHANGED <<now, store, inv, n, env, gens, reqs>>

NextK == \E m \in DOMAIN Methods : \E a \in Methods[m].args : Call(m, a)

SpecK == InitK /\ [][NextK]_vars

\* ------------------------------------------------------ the id generator
\* Instants are counted in ms from the generator's epoch (1609459200000,
\* 2021-01-01 UTC): reading r of Date.now() stands for epoch + r, and
\* timestamp - epoch is r itself.  The clock is free: every reading is any
\* element of Readings, whatever was read before.
Gens == {1, 2}
Reqs == 1..NReqs
Readings == (0 - Before)..After

\* -1n ^ (-1n << bits)
MaxWorkerId == 2^WorkerIdBits - 1
MaxDatacenterId == 2^DatacenterIdBits - 1
MaxSequence == 2^SequenceBits - 1

WorkerIdShift == SequenceBits
DatacenterIdShift == SequenceBits + WorkerIdBits
TimestampShift == SequenceBits + WorkerIdBits + DatacenterIdBits

\* lastTimestamp = -1n lies before the epoch and before every reading
FirstLastTimestamp == (0 - Before) - 1

\* bigint |, & and << (two's complement of unbounded width)
RECURSIVE BitOr(_, _)
BitOr(a, b) ==
  IF a = 0 THEN b ELSE IF b = 0 THEN a ELSE IF a = -1 \/ b = -1 THEN -1
  ELSE (IF a % 2 = 1 \/ b % 2 = 1 THEN 1 ELSE 0) + 2 * BitOr(a \div 2, b \div 2)

RECURSIVE BitAnd(_, _)
BitAnd(a, b) ==
  IF a = 0 \/ b = 0 THEN 0 ELSE IF a = -1 THEN b ELSE IF b = -1 THEN a
  ELSE (IF a % 2 = 1 /\ b % 2 = 1 THEN 1 ELSE 0) + 2 * BitAnd(a \div 2, b \div 2)

ShiftLeft(a, k) == a * 2^k

\* process.env.SNOWFLAKE_WORKER_ID / SNOWFLAKE_DATACENTER_ID
Unset == [set |-> FALSE, text |-> ""]
EnvVar(t) == [set |-> TRUE, text |-> t]

\* Number(text) of the texts that are numerals; every other text, and the
\* variable left unset, gives NaN
Numerals == {<<"-1", -1>>, <<"0", 0>>, <<"1", 1>>, <<"31", 31>>, <<"32", 32>>}
IsNaN(v) == ~v.set \/ ~\E p \in Numerals : p[1] = v.text
\* Number(v) || 0
NumberOrZero(v) == IF IsNaN(v) THEN 0 ELSE (CHOOSE p \in Numerals : p[1] = v.text)[2]

WorkerEnvs == {Unset, EnvVar("1"), EnvVar("32"), EnvVar("-1")}
DatacenterEnvs == {EnvVar("31"), EnvVar("32"), EnvVar("abc")}

\* the calls made before the first state: prior.count calls of next(), each
\* awaited, all reading the instant prior.at, on a new generator; ids is what
\* they returned
NoPrior == [count |-> 0, at |-> 0, ids |-> {}]
Priors == {NoPrior, [count |-> MaxSequence + 1, at |-> 0, ids |-> {}]}

\* new SnowflakeGenerator(): built is FALSE when the constructor throws
ConstructorUnchecked(e) ==
  [built |-> TRUE, error |-> "none",
   workerId |-> NumberOrZero(e.worker), datacenterId |-> NumberOrZero(e.datacenter),
   lastTimestamp |-> FirstLastTimestamp, sequence |-> 0, chain |-> <<>>,
   prior |-> NoPrior, hist |-> <<>>]
Constructor(e) ==
  LET workerId == NumberOrZero(e.worker)
      datacenterId == NumberOrZero(e.datacenter)
      thrown == IF workerId > MaxWorkerId \/ workerId < 0 THEN "workerId"
                ELSE IF datacenterId > MaxDatacenterId \/ datacenterId < 0 THEN "datacenterId"
                ELSE "none"
  IN [built |-> thrown = "none", error |-> thrown,
      workerId |-> workerId, datacenterId |-> datacenterId,
      lastTimestamp |-> FirstLastTimestamp, sequence |-> 0, chain |-> <<>>,
      prior |-> NoPrior, hist |-> <<>>]

\* the id composed from timestamp - epoch, the two node ids and the sequence
MakeIdNoNode(g, ts, seq) == BitOr(ShiftLeft(ts, TimestampShift), seq)
MakeIdNodeShiftsSwapped(g, ts, seq) ==
  BitOr(BitOr(BitOr(ShiftLeft(ts, TimestampShift), ShiftLeft(g.datacenterId, WorkerIdShift)),
              ShiftLeft(g.workerId, DatacenterIdShift)), seq)
MakeId(g, ts, seq) ==
  BitOr(BitOr(BitOr(ShiftLeft(ts, TimestampShift), ShiftLeft(g.datacenterId, DatacenterIdShift)),
              ShiftLeft(g.workerId, WorkerIdShift)), seq)

\* bigint >> (arithmetic shift)
ShiftRight(a, k) == a \div 2^k

\* the timestamp field of an id: id >> timestampShift
TimestampOf(id) == id \div 2^TimestampShift

\* waitNextMillis: the reading that ends the loop
WaitNextMillisNoWait(lastTimestamp) == {lastTimestamp}
WaitNextMillis(lastTimestamp) == {t \in Readings : t > lastTimestamp}

\* what one run of generateIdUnsafe gives: the generator after it, the id it
\* returned (none if it threw), the offset of the error it threw, and read, the
\* clock reading it started from
ThrownAfterAdopting(g, r) ==
  [g |-> [g EXCEPT !.lastTimestamp = r, !.sequence = 0], ids |-> <<>>, err |-> TRUE,
   offset |-> g.lastTimestamp - r, read |-> r]
Thrown(g, r) == [g |-> g, ids |-> <<>>, err |-> TRUE, offset |-> g.lastTimestamp - r, read |-> r]
Emitted(g, r, ts, seq) ==
  [g |-> [g EXCEPT !.lastTimestamp = ts, !.sequence = seq],
   ids |-> <<MakeId(g, ts, seq)>>, err |-> FALSE, offset |-> 0, read |-> r]

\* generateIdUnsafe when its first clock reading is r: the possible outcomes
GenerateIdUnsafeSameSequence(g, r) ==
  IF r < g.lastTimestamp THEN {Thrown(g, r)}
  ELSE IF r = g.lastTimestamp THEN {Emitted(g, r, r, g.sequence)}
  ELSE {Emitted(g, r, r, 0)}
GenerateIdUnsafeNoRegressionCheck(g, r) ==
  IF r = g.lastTimestamp
    THEN LET seq == BitAnd(g.sequence + 1, MaxSequence)
         IN IF seq = 0 THEN {Emitted(g, r, t, seq) : t \in WaitNextMillis(g.lastTimestamp)}
                       ELSE {Emitted(g, r, r, seq)}
    ELSE {Emitted(g, r, r, 0)}
GenerateIdUnsafe(g, r) ==
  IF r < g.lastTimestamp THEN {Thrown(g, r)}
  ELSE IF r = g.lastTimestamp
    THEN LET seq == BitAnd(g.sequence + 1, MaxSequence)
         IN IF seq = 0 THEN {Emitted(g, r, t, seq) : t \in WaitNextMillis(g.lastTimestamp)}
                       ELSE {Emitted(g, r, r, seq)}
    ELSE {Emitted(g, r, r, 0)}

\* the state a generator is in after the calls of p
AfterPrior(g, p) ==
  IF p.count = 0 THEN g
  ELSE [g EXCEPT !.lastTimestamp = p.at, !.sequence = p.count - 1,
                 !.prior = [p EXCEPT !.ids = {MakeId(g, p.at, q) : q \in 0..(p.count - 1)}]]

\* the ids of one nextBatch body: count turns of the loop around
\* generateIdUnsafe, each with its own clock readings; a throw ends the loop
\* and drops the ids collected so far
RECURSIVE NextBatchBodyOnOneState(_, _, _)
NextBatchBodyOnOneState(g, count, ids) ==
  IF count = 0 THEN {[g |-> g, ids |-> ids, err |-> FALSE, offset |-> 0, read |-> 0]}
  ELSE UNION {IF o.err THEN {o} ELSE NextBatchBodyOnOneState(g, count - 1, ids \o o.ids) :
                o \in UNION {GenerateIdUnsafe(g, r) : r \in Readings}}

RECURSIVE NextBatchBody(_, _, _)
NextBatchBody(g, count, ids) ==
  IF count = 0 THEN {[g |-> g, ids |-> ids, err |-> FALSE, offset |-> 0, read |-> 0]}
  ELSE UNION {IF o.err THEN {o} ELSE NextBatchBody(o.g, count - 1, ids \o o.ids) :
                o \in UNION {GenerateIdUnsafe(g, r) : r \in Readings}}

\* one call of next() or nextBatch(): pc is its position, gen the generator
\* it was made on, ids / err / offset what its promise settled with, read the
\* clock reading its (last) run of generateIdUnsafe started from
IdleReq ==
  [pc |-> "idle", gen |-> 0, kind |-> "none", count |-> 0, ids |-> <<>>, err |-> FALSE, offset |-> 0,
   read |-> 0]

\* one process: any configuration, and the generator it gives, new or after
\* the calls of a prior
Envs == [worker : WorkerEnvs, datacenter : DatacenterEnvs]

InitG ==
  /\ now = 0
  /\ store = [k \in Keys |-> Absent]
  /\ inv = [c \in AllCallers |-> Fresh]
  /\ n = 0
  /\ calls = <<>>
  /\ env \in [{1} -> Envs]
  /\ \E p \in Priors :
       gens = [i \in {1} |-> IF Constructor(env[i]).built THEN AfterPrior(Constructor(env[i]), p)
                                                         ELSE Constructor(env[i])]
  /\ reqs = [c \in Reqs |-> IdleReq]

\* two processes, each with its own configuration and, when the constructor
\* accepts it, a new generator
GenEnvs ==
  {[worker |-> EnvVar("1"), datacenter |-> Unset], [worker |-> Unset, datacenter |-> EnvVar("1")],
   [worker |-> EnvVar("32"), datacenter |-> Unset], [worker |-> Unset, datacenter |-> EnvVar("-1")]}

InitG2 ==
  /\ now = 0
  /\ store = [k \in Keys |-> Absent]
  /\ inv = [c \in AllCallers |-> Fresh]
  /\ n = 0
  /\ calls = <<>>
  /\ env \in [Gens -> GenEnvs]
  /\ gens = [i \in Gens |-> Constructor(env[i])]
  /\ reqs = [c \in Reqs |-> IdleReq]

\* next(): the call is chained behind the calls made before it
CallNext(c, i) ==
  /\ reqs[c].pc = "idle"
  /\ \A d \in 1..(c - 1) : reqs[d].pc # "idle"   \* calls are numbered in call order
  /\ gens[i].built
  /\ reqs' = [reqs EXCEPT ![c] = [@ EXCEPT !.pc = "queued", !.gen = i, !.kind = "next", !.count = 1]]
  /\ gens' = [gens EXCEPT ![i].chain = Append(@, c)]
  /\ UNCHANGED <<env, offGen>>

\* nextBatch(count): [] at once when count <= 0, chained otherwise
CallNextBatch(c, i, count) ==
  /\ reqs[c].pc = "idle"
  /\ \A d \in 1..(c - 1) : reqs[d].pc # "idle"
  /\ gens[i].built
  /\ IF count <= 0
       THEN /\ reqs' = [reqs EXCEPT ![c] = [@ EXCEPT !.pc = "done", !.gen = i, !.kind = "batch", !.count = count]]
            /\ UNCHANGED gens
       ELSE /\ reqs' = [reqs EXCEPT ![c] = [@ EXCEPT !.pc = "queued", !.gen = i, !.kind = "batch", !.count = count]]
            /\ gens' = [gens EXCEPT ![i].chain = Append(@, c)]
  /\ UNCHANGED <<env, offGen>>

\* the callback of the first call in the chain runs to its end and settles
\* the call's promise; the chain goes on whether it returned or threw
ChainStepLastFirst(i) ==
  /\ gens[i].chain # <<>>
  /\ LET c == gens[i].chain[Len(gens[i].chain)]
         g == gens[i]
     IN \E o \in (IF reqs[c].kind = "next"
                    THEN UNION {GenerateIdUnsafe(g, r) : r \in Readings}
                    ELSE NextBatchBody(g, reqs[c].count, <<>>)) :
          /\ gens' = [gens EXCEPT ![i] = [o.g EXCEPT !.chain = SubSeq(g.chain, 1, Len(g.chain) - 1),
                                                    !.hist = g.hist \o o.ids]]
          /\ reqs' = [reqs EXCEPT ![c] = [@ EXCEPT !.pc = "done", !.ids = o.ids, !.err = o.err, !.offset = o.offset,
                                                 !.read = o.read]]
  /\ UNCHANGED <<env, offGen>>
ChainStepRejectionSpreads(i) ==
  /\ gens[i].chain # <<>>
  /\ LET c == Head(gens[i].chain)
         g == gens[i]
     IN \E o \in (IF reqs[c].kind = "next"
                    THEN UNION {GenerateIdUnsafe(g, r) : r \in Readings}
                    ELSE NextBatchBody(g, reqs[c].count, <<>>)) :
          IF o.err
            THEN /\ gens' = [gens EXCEPT ![i] = [o.g EXCEPT !.chain = <<>>]]
                 /\ reqs' = [d \in Reqs |->
                       IF \E j \in DOMAIN g.chain : g.chain[j] = d
                         THEN [reqs[d] EXCEPT !.pc = "done", !.err = TRUE, !.offset = o.offset, !.read = o.read]
                         ELSE reqs[d]]
            ELSE /\ gens' = [gens EXCEPT ![i] = [o.g EXCEPT !.chain = Tail(g.chain), !.hist = g.hist \o o.ids]]
                 /\ reqs' = [reqs EXCEPT ![c] = [@ EXCEPT !.pc = "done", !.ids = o.ids, !.err = o.err,
                                                        !.offset = o.offset, !.read = o.read]]
  /\ UNCHANGED <<env, offGen>>
ChainStep(i) ==
  /\ gens[i].chain # <<>>
  /\ LET c == Head(gens[i].chain)
         g == gens[i]
     IN \E o \in (IF reqs[c].kind = "next"
                    THEN UNION {GenerateIdUnsafe(g, r) : r \in Readings}
                    ELSE NextBatchBody(g, reqs[c].count, <<>>)) :
          /\ gens' = [gens EXCEPT ![i] = [o.g EXCEPT !.chain = Tail(g.chain), !.hist = g.hist \o o.ids]]
          /\ reqs' = [reqs EXCEPT ![c] = [@ EXCEPT !.pc = "done", !.ids = o.ids, !.err = o.err, !.offset = o.offset,
                                                 !.read = o.read]]
  /\ UNCHANGED <<env, offGen>>

NextG ==
  \/ \E c \in Reqs, i \in DOMAIN gens : CallNext(c, i)
  \/ \E c \in Reqs, i \in DOMAIN gens, count \in 0..MaxCount : CallNextBatch(c, i, count)
  \/ \E i \in DOMAIN gens : ChainStep(i)

SpecG == InitG /\ [][NextG]_vars

SpecG2 == InitG2 /\ [][NextG]_vars

\* --------------------------------------- the flag-and-queue generator
\* The variant that guards next() with isGenerating and waitQueue.  gens[i]
\* is its singleton: the fields of the constructor, the flag, the queue of
\* resolvers (each named by the call whose promise it settles), and
\* immediates, the callbacks handed to setImmediate and not yet run.
FlagQueueGenerator(e) ==
  LET k == Constructor(e)
  IN [built |-> k.built, error |-> k.error, workerId |-> k.workerId, datacenterId |-> k.datacenterId,
      lastTimestamp |-> k.lastTimestamp, sequence |-> k.sequence,
      isGenerating |-> FALSE, waitQueue |-> <<>>, immediates |-> <<>>]

\* nextIdSync when its first clock reading is r
NextIdSync(g, r) == GenerateIdUnsafe(g, r)

\* next() called as call c, from its first line to its return or throw:
\* pending is TRUE when it returned a promise whose resolver it queued
FlagNextKeepsFlagOnThrow(g, c, r) ==
  IF g.isGenerating
    THEN {[g |-> [g EXCEPT !.waitQueue = Append(@, c)], ids |-> <<>>, err |-> FALSE, offset |-> 0,
           read |-> r, pending |-> TRUE]}
    ELSE {[g |-> IF o.err THEN o.g
                 ELSE IF o.g.waitQueue # <<>>
                   THEN [o.g EXCEPT !.waitQueue = Tail(@), !.immediates = Append(@, Head(o.g.waitQueue))]
                 ELSE [o.g EXCEPT !.isGenerating = FALSE],
           ids |-> o.ids, err |-> o.err, offset |-> o.offset, read |-> o.read, pending |-> FALSE]
            : o \in NextIdSync([g EXCEPT !.isGenerating = TRUE], r)}
FlagNext(g, c, r) ==
  IF g.isGenerating
    THEN {[g |-> [g EXCEPT !.waitQueue = Append(@, c)], ids |-> <<>>, err |-> FALSE, offset |-> 0,
           read |-> r, pending |-> TRUE]}
    ELSE {[g |-> IF o.err THEN [o.g EXCEPT !.isGenerating = FALSE]
                 ELSE IF o.g.waitQueue # <<>>
                   THEN [o.g EXCEPT !.waitQueue = Tail(@), !.immediates = Append(@, Head(o.g.waitQueue))]
                 ELSE [o.g EXCEPT !.isGenerating = FALSE],
           ids |-> o.ids, err |-> o.err, offset |-> o.offset, read |-> o.read, pending |-> FALSE]
            : o \in NextIdSync([g EXCEPT !.isGenerating = TRUE], r)}

InitF ==
  /\ now = 0
  /\ store = [k \in Keys |-> Absent]
  /\ inv = [c \in AllCallers |-> Fresh]
  /\ n = 0
  /\ calls = <<>>
  /\ env \in [{1} -> GenEnvs]
  /\ gens = [i \in {1} |-> FlagQueueGenerator(env[i])]
  /\ reqs = [c \in Reqs |-> IdleReq]

\* one task of the event loop runs to its end.  The task is a caller's
\* next(), made as call c and settled at once unless it got a promise
\* (pc = "queued"), or the setImmediate callback that clears the flag and
\* resolves the promise of the queued call c with this.next(); a throw in
\* the callback leaves that promise pending.
RunTask(c, i, r) ==
  /\ gens[i].built
  /\ IF reqs[c].pc = "idle"
       THEN /\ \A d \in 1..(c - 1) : reqs[d].pc # "idle"
            /\ \E o \in FlagNext(gens[i], c, r) :
                 /\ gens' = [gens EXCEPT ![i] = o.g]
                 /\ reqs' = [reqs EXCEPT ![c] =
                      [@ EXCEPT !.pc = IF o.pending THEN "queued" ELSE "done", !.gen = i, !.kind = "next",
                                !.count = 1, !.ids = o.ids, !.err = o.err, !.offset = o.offset, !.read = o.read]]
       ELSE /\ reqs[c].pc = "queued"
            /\ gens[i].immediates # <<>> /\ Head(gens[i].immediates) = c
            /\ \E o \in FlagNext([gens[i] EXCEPT !.isGenerating = FALSE, !.immediates = Tail(@)], c, r) :
                 /\ gens' = [gens EXCEPT ![i] = o.g]
                 /\ reqs' = [reqs EXCEPT ![c] =
                      IF o.err \/ o.pending THEN @
                      ELSE [@ EXCEPT !.pc = "done", !.ids = o.ids, !.read = o.read]]
  /\ UNCHANGED <<env, offGen>>

\* nextBatch(count) of this variant: the loop around nextIdSync, run at once
CallNextBatchSync(c, i, count) ==
  /\ gens[i].built
  /\ reqs[c].pc = "idle"
  /\ \A d \in 1..(c - 1) : reqs[d].pc # "idle"
  /\ \E o \in NextBatchBody(gens[i], count, <<>>) :
       /\ gens' = [gens EXCEPT ![i] = o.g]
       /\ reqs' = [reqs EXCEPT ![c] =
            [@ EXCEPT !.pc = "done", !.gen = i, !.kind = "batch", !.count = count, !.ids = o.ids,
                      !.err = o.err, !.offset = o.offset, !.read = o.read]]
  /\ UNCHANGED <<env, offGen>>

NextF ==
  \/ \E c \in Reqs, i \in DOMAIN gens, r \in Readings : RunTask(c, i, r)
  \/ \E c \in Reqs, i \in DOMAIN gens, count \in 0..MaxCount : CallNextBatchSync(c, i, count)

SpecF == InitF /\ [][NextF]_vars

\* ================================================================ claims
InBody(c) == inv[c].pc = "body"

\* the body of c settles, and so c releases, before the ttl of its lock elapses
InTtl(c) == inv[c].bodyEnd < inv[c].acqAt + inv[c].ttl

\* the step in which invocation c takes a turn of the loop of acquireLock
SetStep(c) == inv[c].pc = "acquire" /\ inv'[c] # inv[c]

\* the step in which invocation c runs its finally block (releaseLock)
ReleaseStep(c) == inv[c].pc = "body" /\ inv'[c].pc = "done"

\* C1 (as stated): two invocations with the same lock key are never inside
\* their method bodies at the same instant.
C1_MutualExclusion ==
  \A c1, c2 \in Callers :
    (c1 # c2 /\ InBody(c1) /\ InBody(c2)) => inv[c1].lockKey # inv[c2].lockKey

\* C1 (amended): two invocations with the same lock key are inside their
\* method bodies at the same instant only if the body of one of them
\* outlasts the ttl of its lock.
C1_MutualExclusionWithinTtl ==
  \A c1, c2 \in Callers :
    (c1 # c2 /\ InBody(c1) /\ InBody(c2) /\ inv[c1].lockKey = inv[c2].lockKey)
      => ~(InTtl(c1) /\ InTtl(c2))

\* two invocations were inside their bodies one after the other on one key
C1_Witness ==
  \E c1, c2 \in Callers :
    /\ c1 # c2 /\ inv[c1].pc = "done" /\ inv[c1].released
    /\ InBody(c2) /\ InTtl(c2) /\ inv[c2].attempts > 1
    /\ inv[c1].lockKey = inv[c2].lockKey

\* C2: if the holders finish and release within their ttl, at most one
\* invocation holds a key, and the store's value for the key is the token of
\* the invocation that holds it.
C2_OneHolderWithItsToken ==
  (\A c \in Callers : InBody(c) => InTtl(c)) =>
    /\ \A c \in Callers : InBody(c) => store[inv[c].lockKey].val = inv[c].lockValue
    /\ \A k \in Keys : Cardinality({c \in Callers : InBody(c) /\ inv[c].lockKey = k}) <= 1

\* an invocation holds a key another invocation is waiting for
C2_Witness ==
  \E c1, c2 \in Callers :
    /\ InBody(c1) /\ InTtl(c1) /\ store[inv[c1].lockKey].val = inv[c1].lockValue
    /\ inv[c2].pc = "acquire" /\ inv[c2].attempts > 0 /\ inv[c2].lockKey = inv[c1].lockKey

\* C3: release deletes the key exactly when the stored value is the caller's
\* token, in one step, and reports true; otherwise it reports false and the
\* store is unchanged (so a holder whose lock expired and was taken over
\* leaves the new holder's lock in place).
C3_ReleaseComparesAndDeletes ==
  [][\A c \in Callers : ReleaseStep(c) =>
       LET k == inv[c].lockKey
       IN IF store[k].val = inv[c].lockValue /\ inv'[c].storeErr # "eval"
            THEN /\ inv'[c].released
                 /\ store' = [store EXCEPT ![k] = Absent]
            ELSE /\ ~inv'[c].released
                 /\ store' = store]_vars

\* an invocation's release reported false while another one's lock is in place
C3_Witness ==
  \E a, b \in Callers :
    /\ inv[a].pc = "done" /\ inv[a].acquired /\ ~inv[a].released /\ inv[a].storeErr = "none"
    /\ InBody(b) /\ inv[b].lockKey = inv[a].lockKey
    /\ store[inv[b].lockKey].val = inv[b].lockValue

\* C4: a key goes from Unlocked to Locked(T) only by a successful acquire
\* with token T, from Locked(T) to Unlocked only by a release carrying T or
\* by expiry, never from Locked(T1) to Locked(T2); an acquire attempt on a
\* Locked key does not succeed and leaves value and expiry as they are.
C4_KeyStateMachine ==
  [][/\ \A k \in Keys : store'[k] # store[k] =>
          \/ /\ store[k] = Absent
             /\ \E c \in Callers :
                  /\ SetStep(c) /\ inv'[c].pc = "body" /\ inv[c].lockKey = k
                  /\ store'[k] = [val |-> inv[c].lockValue, exp |-> now + inv[c].ttl]
          \/ /\ store[k] # Absent /\ store'[k] = Absent
             /\ \/ \E c \in Callers :
                     ReleaseStep(c) /\ inv[c].lockKey = k /\ inv[c].lockValue = store[k].val
                \/ now' >= store[k].exp
     /\ \A c \in Callers : (SetStep(c) /\ store[inv[c].lockKey] # Absent) =>
          inv'[c].pc # "body" /\ ~inv'[c].acquired /\ store' = store]_vars

\* an acquire attempt was made on a key that was Locked
C4_Witness ==
  \E c \in Callers :
    /\ inv[c].pc = "acquire" /\ inv[c].attempts > 0
    /\ store[inv[c].lockKey] # Absent
    /\ store[inv[c].lockKey].val # inv[c].lockValue

\* C5: with waitTimeout = 0, the attempt on a held key is the only one: the
\* call then settles with LOCK_ACQUIRE_FAILED (LOCK_ACQUIRE_ERROR if the store
\* raised an error), having neither slept nor run the body; 0 is not replaced
\* by the default.
C5_ZeroWaitFailsFast ==
  [][\A c \in Callers :
       (SetStep(c) /\ inv[c].options.waitTimeout = 0 /\ store[inv[c].lockKey] # Absent) =>
         /\ inv[c].attempts = 0
         /\ inv'[c].pc = "done"
         /\ inv'[c].outcome =
              IF inv'[c].storeErr = "set" THEN "LOCK_ACQUIRE_ERROR" ELSE "LOCK_ACQUIRE_FAILED"
         /\ ~inv'[c].acquired /\ inv'[c].releases = 0
         /\ store' = store]_vars

\* a call with waitTimeout = 0 failed on a held key
C5_Witness ==
  \E c \in Callers :
    /\ inv[c].pc = "done" /\ inv[c].outcome = "LOCK_ACQUIRE_FAILED"
    /\ inv[c].options.waitTimeout = 0 /\ ~inv[c].acquired
    /\ store[inv[c].lockKey] # Absent

\* C6 (as stated): no conditional-set attempt is issued, and no success is
\* reported, later than waitTimeout after the start of acquire.
C6_AcquireWithinWaitTimeout ==
  \A c \in Callers :
    /\ (inv[c].pc = "acquire" /\ inv[c].wakeAt <= now) => now - inv[c].startTime <= inv[c].waitTimeout
    /\ InBody(c) => inv[c].acqAt - inv[c].startTime <= inv[c].waitTimeout

\* C7 (as stated): none of the N callers ends with an acquire timeout.
C7_NoneTimesOut ==
  \A c \in AllCallers : inv[c].outcome # "LOCK_ACQUIRE_FAILED"

\* the largest N whose critical sections, each followed by at most one lost
\* retry interval, all start within waitTimeout
ScenarioSafeN ==
  (ResolveWaitTimeout(ScenarioOptions.waitTimeout)
     \div ((CHOOSE d \in ScenarioDurations : TRUE)
             + ResolveRetryInterval(ScenarioOptions.retryInterval))) + 1

\* C7 (amended): when N is at most ScenarioSafeN (7), none of the N callers
\* ends with an acquire timeout, and once no step is left every one of them
\* has run its body and released.
C7_NoneTimesOutUpToSafeN ==
  n <= ScenarioSafeN =>
    /\ \A c \in AllCallers : inv[c].outcome # "LOCK_ACQUIRE_FAILED"
    /\ (\A c \in 1..n : inv[c].pc # "idle" /\ ~Urgent(c)) /\ Deadlines = {} =>
         \A c \in 1..n : inv[c].outcome = "returned" /\ inv[c].released

\* all of ScenarioSafeN callers have acquired, run and released
C7_Witness ==
  /\ n = ScenarioSafeN
  /\ \A c \in 1..n : inv[c].pc = "done" /\ inv[c].outcome = "returned" /\ inv[c].released
  /\ now > 200 * n

\* C8: the store holds no key past its ttl, so the lock of a holder that
\* crashed is gone once its ttl has elapsed, and a conditional-set attempt
\* on a key the store does not hold succeeds.
C8_ExpiryFreesTheKey ==
  /\ [](/\ \A k \in Keys : store[k] # Absent => now < store[k].exp
        /\ \A c \in Callers :
             (inv[c].pc = "crashed" /\ now >= inv[c].acqAt + inv[c].ttl) =>
               store[inv[c].lockKey].val # inv[c].lockValue)
  /\ [][\A c \in Callers :
          (SetStep(c) /\ store[inv[c].lockKey] = Absent /\ inv'[c].storeErr # "set") =>
            /\ inv'[c].pc = "body" /\ inv'[c].acquired
            /\ store'[inv[c].lockKey].val = inv[c].lockValue]_vars

\* after a holder crashed, another invocation acquired the key past the ttl
C8_Witness ==
  \E c, d \in Callers :
    /\ inv[c].pc = "crashed" /\ InBody(d) /\ inv[d].lockKey = inv[c].lockKey
    /\ inv[d].acqAt >= inv[c].acqAt + inv[c].ttl
    /\ store[inv[d].lockKey].val = inv[d].lockValue

\* C9: an invocation whose redis.set raised an error has settled with
\* LOCK_ACQUIRE_ERROR on that attempt, without acquiring, running the body or
\* issuing a release.
C9_SetErrorFailsTheCall ==
  \A c \in Callers :
    inv[c].storeErr = "set" =>
      /\ inv[c].pc = "done" /\ inv[c].outcome = "LOCK_ACQUIRE_ERROR"
      /\ ~inv[c].acquired /\ inv[c].releases = 0 /\ ~inv[c].released

\* a redis.set raised an error while the key was held by another invocation
C9_Witness ==
  \E c, d \in Callers :
    /\ inv[c].storeErr = "set" /\ inv[c].pc = "done"
    /\ InBody(d) /\ inv[d].lockKey = inv[c].lockKey

\* C10 (as stated): a call whose release hit a store error settles with the
\* LOCK_RELEASE_ERROR error.
C10_ReleaseErrorSurfaced ==
  \A c \in Callers :
    (inv[c].pc = "done" /\ inv[c].storeErr = "eval") => inv[c].outcome = "LOCK_RELEASE_ERROR"

\* C11: an invocation that acquired issues exactly one release, with its own
\* key and token, in the step in which it completes to its caller, whether
\* the body returned or threw; when the store carries the release out and the
\* ttl has not elapsed, the key is Unlocked at completion.  An invocation that
\* did not acquire issues no release, and none is issued before the body ends.
C11_ReleaseOnEveryExit ==
  /\ [](\A c \in Callers :
          /\ inv[c].pc = "done" => inv[c].releases = (IF inv[c].acquired THEN 1 ELSE 0)
          /\ inv[c].pc \in {"idle", "acquire", "body"} => inv[c].releases = 0
          /\ inv[c].outcome \in {"returned", "threw"} => inv[c].acquired)
  /\ [][\A c \in Callers : ReleaseStep(c) =>
          /\ inv'[c].releases = 1
          /\ inv'[c].outcome \in {"returned", "threw"}
          /\ (inv'[c].storeErr # "eval" /\ now < inv[c].acqAt + inv[c].ttl) =>
                /\ store[inv[c].lockKey].val = inv[c].lockValue
                /\ store'[inv[c].lockKey] = Absent
                /\ inv'[c].released]_vars

\* one invocation's body threw and its lock is released; another one gave up
\* without acquiring
C11_Witness ==
  \E c, d \in Callers :
    /\ inv[c].pc = "done" /\ inv[c].outcome = "threw" /\ inv[c].acquired
    /\ inv[c].releases = 1 /\ inv[c].released /\ store[inv[c].lockKey] = Absent
    /\ inv[d].pc = "done" /\ inv[d].outcome = "LOCK_ACQUIRE_FAILED" /\ inv[d].releases = 0

\* C12 (as stated): the key of a createOrder call contains its userId and the
\* key of a reduceInventory call its productId, so two calls of one of these
\* methods with different userId (productId) lock different keys.
C12_KeyContainsTheArgument ==
  \A i, j \in DOMAIN calls :
    /\ calls[i].method = "createOrder" =>
         calls[i].lockKey = "lock:order:create:" \o calls[i].args[1].str
    /\ calls[i].method = "reduceInventory" =>
         calls[i].lockKey = "lock:inventory:" \o calls[i].args[1].str
    /\ (calls[i].method = calls[j].method /\ calls[i].method \in {"createOrder", "reduceInventory"}
          /\ calls[i].args[1] # calls[j].args[1]) => calls[i].lockKey # calls[j].lockKey

\* the step in which the callback of call c runs on generator i
RunStep(c, i) == gens[i].chain # <<>> /\ Head(gens[i].chain) = c /\ gens'[i].chain = Tail(gens[i].chain)

\* C13: the ids a generator has returned, over all calls of next() and
\* nextBatch() in whatever order they were made and with whatever the clock
\* read, are pairwise distinct.
C13_IdsDistinct ==
  \A i \in DOMAIN gens :
    /\ \A j, k \in DOMAIN gens[i].hist : j # k => gens[i].hist[j] # gens[i].hist[k]
    /\ {gens[i].hist[j] : j \in DOMAIN gens[i].hist} \cap gens[i].prior.ids = {}

\* a generator returned ids to a batch within one millisecond, failed a call
\* on a clock regression, and returned an id to a later call
C13_Witness ==
  \E i \in DOMAIN gens, b, e, c \in Reqs :
    /\ reqs[b].pc = "done" /\ reqs[b].gen = i /\ Len(reqs[b].ids) = 2
    /\ TimestampOf(reqs[b].ids[1]) = TimestampOf(reqs[b].ids[2])
    /\ reqs[e].pc = "done" /\ reqs[e].gen = i /\ reqs[e].err
    /\ reqs[c].pc = "done" /\ reqs[c].gen = i /\ reqs[c].kind = "next" /\ Len(reqs[c].ids) = 1
    /\ Len(gens[i].hist) = 3 /\ gens[i].hist[3] = reqs[c].ids[1]

\* C14: lastTimestamp never decreases, and the timestamp fields of the ids a
\* generator returned, in generation order, never decrease (nor fall below
\* the timestamp of the ids returned earlier, nor exceed lastTimestamp).
C14_TimestampsNeverDecrease ==
  /\ [](\A i \in DOMAIN gens :
          LET h == gens[i].hist
          IN /\ \A j, k \in DOMAIN h : j < k => TimestampOf(h[j]) <= TimestampOf(h[k])
             /\ \A j \in DOMAIN h :
                  /\ TimestampOf(h[j]) <= gens[i].lastTimestamp
                  /\ gens[i].prior.count > 0 => gens[i].prior.at <= TimestampOf(h[j]))
  /\ [][\A i \in DOMAIN gens : gens'[i].lastTimestamp >= gens[i].lastTimestamp]_vars

\* ids of two different milliseconds were returned, and a call in between
\* failed on a reading below lastTimestamp
C14_Witness ==
  \E i \in DOMAIN gens, e \in Reqs :
    /\ Len(gens[i].hist) = 2
    /\ TimestampOf(gens[i].hist[1]) < TimestampOf(gens[i].hist[2])
    /\ reqs[e].pc = "done" /\ reqs[e].gen = i /\ reqs[e].err
    /\ reqs[e].read < TimestampOf(gens[i].hist[1])

\* C15: a next() whose clock reading is below lastTimestamp fails with the
\* clock-regression error carrying lastTimestamp - reading, returns no id, and
\* leaves lastTimestamp, sequence and the ids returned so far as they were; a
\* next() fails in no other case.
C15_RegressionFailsTheCall ==
  [][\A i \in DOMAIN gens, c \in Reqs :
       (RunStep(c, i) /\ reqs[c].kind = "next") =>
         /\ reqs'[c].err <=> reqs'[c].read < gens[i].lastTimestamp
         /\ reqs'[c].err =>
              /\ reqs'[c].ids = <<>>
              /\ reqs'[c].offset = gens[i].lastTimestamp - reqs'[c].read
              /\ gens'[i].lastTimestamp = gens[i].lastTimestamp
              /\ gens'[i].sequence = gens[i].sequence
              /\ gens'[i].hist = gens[i].hist]_vars

\* a next() failed with offset 2 between two calls that returned ids of the
\* same millisecond with consecutive sequence values
C15_Witness ==
  \E i \in DOMAIN gens, e \in Reqs :
    /\ reqs[e].pc = "done" /\ reqs[e].gen = i /\ reqs[e].kind = "next"
    /\ reqs[e].err /\ reqs[e].offset = 2 /\ reqs[e].ids = <<>>
    /\ Len(gens[i].hist) = 2
    /\ gens[i].hist[2] = gens[i].hist[1] + 1
    /\ \E a, b \in Reqs : a < e /\ e < b /\ reqs[a].ids = <<gens[i].hist[1]>> /\ reqs[b].ids = <<gens[i].hist[2]>>

\* C16: a next() that reads the millisecond of lastTimestamp when its 4096
\* sequence values are used up does not fail and does not repeat an id: it
\* returns an id of a later millisecond with sequence 0.
C16_ExhaustionWaitsForNextMillis ==
  [][\A i \in DOMAIN gens, c \in Reqs :
       (/\ RunStep(c, i) /\ reqs[c].kind = "next"
        /\ gens[i].sequence = MaxSequence /\ reqs'[c].read = gens[i].lastTimestamp) =>
         /\ ~reqs'[c].err /\ Len(reqs'[c].ids) = 1
         /\ TimestampOf(reqs'[c].ids[1]) > gens[i].lastTimestamp
         /\ gens'[i].lastTimestamp = TimestampOf(reqs'[c].ids[1])
         /\ BitAnd(reqs'[c].ids[1], MaxSequence) = 0 /\ gens'[i].sequence = 0
         /\ reqs'[c].ids[1] \notin gens[i].prior.ids
         /\ \A j \in DOMAIN gens[i].hist : gens[i].hist[j] # reqs'[c].ids[1]]_vars

\* after 4096 ids of millisecond 0, a call that read 0 again returned an id of
\* a later millisecond
C16_Witness ==
  \E i \in DOMAIN gens, c \in Reqs :
    /\ gens[i].prior.count = MaxSequence + 1
    /\ reqs[c].pc = "done" /\ reqs[c].gen = i /\ reqs[c].kind = "next"
    /\ reqs[c].read = gens[i].prior.at /\ ~reqs[c].err
    /\ gens[i].hist = reqs[c].ids
    /\ TimestampOf(reqs[c].ids[1]) > gens[i].prior.at

\* C17: two generators whose (datacenterId, workerId) pairs differ never
\* return the same id, whatever their clocks read.
C17_NodesNeverCollide ==
  \A a, b \in DOMAIN gens :
    (a # b /\ <<gens[a].datacenterId, gens[a].workerId>> # <<gens[b].datacenterId, gens[b].workerId>>) =>
      \A j \in DOMAIN gens[a].hist, k \in DOMAIN gens[b].hist : gens[a].hist[j] # gens[b].hist[k]

\* two generators with different pairs returned ids with the same timestamp
\* and the same sequence value
C17_Witness ==
  \E a, b \in DOMAIN gens :
    /\ a # b /\ gens[a].workerId = 1 /\ gens[a].datacenterId = 0
    /\ gens[b].workerId = 0 /\ gens[b].datacenterId = 1
    /\ \E j \in DOMAIN gens[a].hist, k \in DOMAIN gens[b].hist :
         /\ TimestampOf(gens[a].hist[j]) = TimestampOf(gens[b].hist[k])
         /\ BitAnd(gens[a].hist[j], MaxSequence) = 1
         /\ BitAnd(gens[b].hist[k], MaxSequence) = 1

\* C18: a process whose configured workerId or datacenterId is a number
\* outside 0..31 gets no generator: the constructor throws, naming the id at
\* fault, and no call is ever served.  Every pair inside 0..31 is accepted and
\* stays the generator's workerId and datacenterId for good (an id left unset,
\* or set to a text that is no number, counts as 0).
C18_ConfigurationChecked ==
  \A i \in DOMAIN gens :
    LET w == NumberOrZero(env[i].worker)
        d == NumberOrZero(env[i].datacenter)
    IN /\ (w \notin 0..31 \/ d \notin 0..31) <=> ~gens[i].built
       /\ ~gens[i].built =>
            /\ gens[i].error = (IF w \notin 0..31 THEN "workerId" ELSE "datacenterId")
            /\ gens[i].hist = <<>> /\ gens[i].chain = <<>>
            /\ \A c \in Reqs : reqs[c].gen # i
       /\ gens[i].built =>
            /\ gens[i].error = "none"
            /\ gens[i].workerId = w /\ gens[i].datacenterId = d

\* one process was refused its generator for workerId 32, while the other,
\* with workerId 1 and datacenterId 0, has returned ids
C18_Witness ==
  \E a, b \in DOMAIN gens :
    /\ env[a].worker = EnvVar("32") /\ ~gens[a].built /\ gens[a].error = "workerId"
    /\ env[b].worker = EnvVar("1") /\ gens[b].built /\ gens[b].workerId = 1 /\ gens[b].datacenterId = 0
    /\ Len(gens[b].hist) >= 2

\* C19: a nextBatch(count) with count > 0 that returns, returns exactly count
\* ids in strictly increasing order, generated one after the other with no id
\* of another call among them: they are consecutive in the generator's order
\* of generation, and no id returned to another call, or returned earlier,
\* lies between the first and the last of them.
C19_BatchIsContiguous ==
  \A c \in Reqs :
    (reqs[c].pc = "done" /\ reqs[c].kind = "batch" /\ reqs[c].count > 0 /\ ~reqs[c].err) =>
      LET ids == reqs[c].ids
          h == gens[reqs[c].gen].hist
      IN /\ Len(ids) = reqs[c].count
         /\ \A j \in 1..(Len(ids) - 1) : ids[j] < ids[j + 1]
         /\ \E at \in 0..(Len(h) - Len(ids)) : \A j \in DOMAIN ids : h[at + j] = ids[j]
         /\ \A d \in Reqs \ {c} : reqs[d].gen = reqs[c].gen =>
              \A k \in DOMAIN reqs[d].ids : ~(ids[1] <= reqs[d].ids[k] /\ reqs[d].ids[k] <= ids[Len(ids)])
         /\ \A x \in gens[reqs[c].gen].prior.ids : ~(ids[1] <= x /\ x <= ids[Len(ids)])

\* a batch of two was generated between two calls of next(), all four ids in
\* the same millisecond
C19_Witness ==
  \E a, b, c \in Reqs :
    /\ a < b /\ b < c /\ reqs[a].gen = reqs[b].gen /\ reqs[b].gen = reqs[c].gen
    /\ reqs[a].kind = "next" /\ reqs[b].kind = "batch" /\ reqs[c].kind = "next"
    /\ Len(reqs[a].ids) = 1 /\ Len(reqs[b].ids) = 2 /\ Len(reqs[c].ids) = 1
    /\ reqs[b].ids[1] = reqs[a].ids[1] + 1
    /\ reqs[b].ids[2] = reqs[a].ids[1] + 2
    /\ reqs[c].ids[1] = reqs[a].ids[1] + 3

\* C20 (as stated): every id returned is non-negative, with a timestamp part
\* (reading - epoch) that is not negative.  (The upper ends, 2^41 for the
\* timestamp part and 2^63 for the id, lie beyond the readings of the model.)
C20_IdInRange ==
  \A i \in DOMAIN gens : \A j \in DOMAIN gens[i].hist :
    gens[i].hist[j] >= 0 /\ TimestampOf(gens[i].hist[j]) >= 0

\* C21: the id a call returns (the last one, for a batch) decomposes into the
\* values it was built from, which are the generator's values after the call:
\* id >> 22 is the timestamp (reading - epoch), (id >> 17) & 31 the
\* datacenterId, (id >> 12) & 31 the workerId and id & 4095 the sequence.
C21_IdDecomposes ==
  [][\A i \in DOMAIN gens, c \in Reqs :
       (RunStep(c, i) /\ reqs'[c].ids # <<>>) =>
         LET id == reqs'[c].ids[Len(reqs'[c].ids)]
         IN /\ ShiftRight(id, TimestampShift) = gens'[i].lastTimestamp
            /\ BitAnd(ShiftRight(id, DatacenterIdShift), MaxDatacenterId) = gens[i].datacenterId
            /\ BitAnd(ShiftRight(id, WorkerIdShift), MaxWorkerId) = gens[i].workerId
            /\ BitAnd(id, MaxSequence) = gens'[i].sequence]_vars

\* a generator with workerId 1 and datacenterId 31 returned an id with
\* timestamp 2 and sequence 1
C21_Witness ==
  \E i \in DOMAIN gens :
    /\ gens[i].workerId = 1 /\ gens[i].datacenterId = 31
    /\ gens[i].lastTimestamp = 2 /\ gens[i].sequence = 1
    /\ gens[i].hist # <<>>
    /\ gens[i].hist[Len(gens[i].hist)] = 2 * 2^22 + 31 * 2^17 + 2^12 + 1

\* C22: no two invocations of the wrapper use equal tokens, whether they run
\* at the same time or one after the other, on one key or on two, in one
\* process or in two.  Here: two invocations in flight never carry equal
\* tokens.
C22_TokensDistinct ==
  \A c \in Callers, d \in Callers :
    (c # d /\ inv[c].lockValue # Nil /\ inv[d].lockValue # Nil) =>
      inv[c].lockValue # inv[d].lockValue

\* C23: calls made on one generator while earlier ones are still pending run
\* one at a time in call order: a call has settled only if every call made
\* before it has, and the ids it returned are greater than the ids every
\* earlier call returned.
C23_CallsRunInCallOrder ==
  \A c \in Reqs, d \in Reqs :
    (d < c /\ reqs[c].pc = "done" /\ reqs[c].count > 0 /\ reqs[d].gen = reqs[c].gen) =>
      /\ reqs[d].pc = "done"
      /\ (reqs[c].ids # <<>> /\ reqs[d].ids # <<>>) =>
           reqs[d].ids[Len(reqs[d].ids)] < reqs[c].ids[1]

\* three next() calls were pending together; the first two have run in the
\* same millisecond and the third still waits
C23_Witness ==
  /\ \A c \in {1, 2, 3} : reqs[c].kind = "next"
  /\ reqs[1].pc = "done" /\ reqs[2].pc = "done" /\ reqs[3].pc = "queued"
  /\ reqs[1].ids # <<>> /\ reqs[2].ids # <<>>
  /\ reqs[2].ids[1] = reqs[1].ids[1] + 1
  /\ gens[1].chain = <<3>>

\* a pending call settles
Settles(c) == reqs[c].pc = "queued" /\ reqs'[c].pc = "done"

\* C24: a next() or nextBatch() that failed on a clock regression neither
\* blocks nor fails the calls behind it.  Every pending call stays in the
\* chain, which takes a step whenever it is not empty; a call behind a failed
\* one settles when it is the first of the chain, fails only when its own
\* clock reading is behind lastTimestamp, and returns its ids otherwise.
C24_FailureDoesNotSpread ==
  /\ [](\A c \in Reqs : reqs[c].pc = "queued" =>
           \E j \in DOMAIN gens[reqs[c].gen].chain : gens[reqs[c].gen].chain[j] = c)
  /\ [][\A c \in Reqs :
          (Settles(c) /\ \E d \in 1..(c - 1) : reqs[d].gen = reqs[c].gen /\ reqs[d].err) =>
            /\ c = Head(gens[reqs[c].gen].chain)
            /\ reqs'[c].err => reqs'[c].read < gens'[reqs[c].gen].lastTimestamp
            /\ ~reqs'[c].err => Len(reqs'[c].ids) = reqs[c].count]_vars

\* the first call failed, the second, pending behind it, returned an id, and
\* the third is still pending
C24_Witness ==
  /\ reqs[1].pc = "done" /\ reqs[1].err
  /\ reqs[2].pc = "done" /\ reqs[2].kind = "next" /\ ~reqs[2].err /\ Len(reqs[2].ids) = 1
  /\ reqs[3].pc = "queued"

\* C25: nextBatch(count) is all-or-nothing: the call returns count ids, or it
\* returns no id and leaves lastTimestamp and sequence as they were before
\* the call.
C25_BatchAllOrNothing ==
  [][\A i \in DOMAIN gens, c \in Reqs :
       (RunStep(c, i) /\ reqs[c].kind = "batch") =>
         \/ ~reqs'[c].err /\ Len(reqs'[c].ids) = reqs[c].count
         \/ /\ reqs'[c].err /\ reqs'[c].ids = <<>>
            /\ gens'[i].lastTimestamp = gens[i].lastTimestamp
            /\ gens'[i].sequence = gens[i].sequence]_vars

\* C26: sequence stays within 0..4095; of the ids a generator issued, in
\* generation order, the first one of a millisecond carries sequence 0 (or
\* follows the ids issued in that millisecond before) and every other one
\* carries the sequence of the id before it plus one.
C26_SequencesConsecutive ==
  \A i \in DOMAIN gens :
    /\ gens[i].sequence \in 0..MaxSequence
    /\ LET h == gens[i].hist
           p == gens[i].prior
       IN \A j \in DOMAIN h :
            BitAnd(h[j], MaxSequence) =
              IF j > 1 /\ TimestampOf(h[j - 1]) = TimestampOf(h[j]) THEN BitAnd(h[j - 1], MaxSequence) + 1
              ELSE IF j = 1 /\ p.count > 0 /\ p.at = TimestampOf(h[j]) THEN p.count
              ELSE 0

\* C27: the method body of an invocation starts only in the step in which
\* its own conditional set was answered OK, and at that moment the store
\* holds its token for its key with its ttl; an invocation whose attempt
\* missed after waitTimeout had elapsed settles with LOCK_ACQUIRE_FAILED, and
\* such an invocation never acquired, ran the body or released.
C27_BodyOnlyAfterOwnSet ==
  /\ [](\A c \in Callers :
          /\ InBody(c) => inv[c].acquired
          /\ inv[c].outcome = "LOCK_ACQUIRE_FAILED" =>
               inv[c].pc = "done" /\ ~inv[c].acquired /\ inv[c].releases = 0)
  /\ [][\A c \in Callers :
          (~InBody(c) /\ inv'[c].pc = "body") =>
            /\ SetStep(c)
            /\ store[inv[c].lockKey] = Absent
            /\ store'[inv[c].lockKey] = [val |-> inv[c].lockValue, exp |-> now + inv[c].ttl]]_vars
  /\ [][\A c \in Callers :
          (SetStep(c) /\ store[inv[c].lockKey] # Absent /\ inv'[c].storeErr # "set"
             /\ now - inv[c].startTime >= inv[c].waitTimeout) =>
            /\ inv'[c].pc = "done" /\ inv'[c].outcome = "LOCK_ACQUIRE_FAILED"
            /\ store' = store]_vars

\* one invocation is in its body with its token in the store; another one on
\* the same key missed, was out of waitTimeout and failed
C27_Witness ==
  \E c, d \in Callers :
    /\ InBody(c) /\ store[inv[c].lockKey].val = inv[c].lockValue
    /\ inv[d].pc = "done" /\ inv[d].outcome = "LOCK_ACQUIRE_FAILED"
    /\ inv[d].options.key = inv[c].lockKey

C29_KeysIndependent ==
  /\ [][\A c \in Callers :
          (SetStep(c) \/ ReleaseStep(c)) =>
            \A k \in Keys \ {inv[c].lockKey} : store'[k] = store[k]]_vars
  /\ [][\A c \in Callers :
          (/\ SetStep(c) /\ inv'[c].storeErr # "set"
           /\ store[inv[c].lockKey] = Absent
           /\ \E k \in Keys \ {inv[c].lockKey} : store[k] # Absent) =>
            /\ inv'[c].pc = "body"
            /\ inv'[c].acqAt = now]_vars

\* two invocations hold two different keys at once, the second acquired on
\* its first attempt while the first one's key was held
C29_Witness ==
  \E c, d \in Callers :
    /\ InBody(c) /\ InBody(d) /\ inv[c].lockKey # inv[d].lockKey
    /\ store[inv[c].lockKey].val = inv[c].lockValue
    /\ store[inv[d].lockKey].val = inv[d].lockValue
    /\ inv[c].acqAt < inv[d].startTime /\ inv[d].acqAt = inv[d].startTime

\* C30: in the flag-and-queue variant, between the tasks of the event loop
\* (no next() executing) isGenerating is false, waitQueue is empty and no
\* setImmediate callback is scheduled; so every call of next() ran the
\* generation at once and returned one id, or threw the clock-regression
\* error, and none got a pending promise.
C30_FlagNeverObserved ==
  \A i \in DOMAIN gens :
    /\ ~gens[i].isGenerating /\ gens[i].waitQueue = <<>> /\ gens[i].immediates = <<>>
    /\ \A c \in Reqs :
         (reqs[c].kind = "next" /\ reqs[c].gen = i) =>
           /\ reqs[c].pc = "done"
           /\ IF reqs[c].err THEN reqs[c].ids = <<>> ELSE Len(reqs[c].ids) = 1

\* a next() returned an id, the next one threw on a clock regression, and a
\* third returned an id again
C30_Witness ==
  /\ \A c \in {1, 2, 3} : reqs[c].kind = "next" /\ reqs[c].pc = "done"
  /\ ~reqs[1].err /\ reqs[2].err /\ ~reqs[3].err
  /\ Len(reqs[3].ids) = 1 /\ ~gens[1].isGenerating
====
